---- MODULE Spec2Model ----
(***************************************************************************)
(* A model of iOSdemo/HMM/train_squat.py: the rep segmenter, the Viterbi   *)
(* decoder, the transition fitter, the feature normalizer and the training *)
(* pipeline (main).                                                        *)
(* Python indices are 0-based; TLA+ sequences are 1-based: At(s, k) reads  *)
(* the Python element s[k].                                                *)
(***************************************************************************)
EXTENDS Integers, Sequences, FiniteSets

VARIABLES
    \* segment_reps
    frame_states,   \* the argument: the label sequence
    n,              \* len(frame_states)
    i,              \* the cursor
    start,          \* start of the cycle being scanned (-1: not yet bound)
    saw_down,       \* the flag of the flexed loop
    reps,           \* the list returned
    pc,             \* position in segment_reps
    iters,          \* how many times the body of the outer loop was entered
    iter_i0,        \* the cursor when the current outer iteration was entered
    \* fit_transitions
    state_seq,      \* the argument: the label sequence
    counts,         \* the 2x2 count matrix
    t_i,            \* the loop index
    trans,          \* the matrix returned, each entry <<numerator, denominator>>
    t_pc,           \* position in fit_transitions
    \* viterbi_loglik
    log_prior,      \* [S]: the log-prior score of each state
    log_trans,      \* [S x S]: the log-transition score, from state, to state
    log_emit,       \* [T x S]: the log-emission score of each frame and state
    dp,             \* dp[0 .. v_t-1, :], the rows filled so far
    back,           \* back[0 .. v_t-1, :], the rows filled so far
    v_t,            \* the time step the recursion is at
    path,           \* the best path returned
    best_log,       \* the log-likelihood returned
    v_pc,           \* position in viterbi_loglik
    \* extract_feature_vector
    landmarks,      \* the argument: joint -> [x, y, vis]
    factor,         \* the uniform positive scale factor of the transform
    shift,          \* the translation vector of the transform
    feat,           \* the result on landmarks
    feat_t,         \* the result on the transformed landmarks
    n_pc,           \* position of the two calls
    \* main
    m_pc,           \* position in main
    frames_read,    \* frames cap.read() has returned
    all_states,     \* the label of each usable frame; all_features has one
                    \* vector per entry
    features_per_state, \* label -> the frames whose vector is in its bucket
    fit_calls,      \* the fitters called
    m_reps,         \* main's reps: what segment_reps returned, or the fallback
    r_idx,          \* index of the next repetition to decode
    decoded,        \* the calls of viterbi_loglik: repetition and frames
    model_written,  \* squat_hmm_model.json was written
    diag            \* the diagnostic printed

segVars == <<frame_states, n, i, start, saw_down, reps, pc, iters, iter_i0>>

transVars == <<state_seq, counts, t_i, trans, t_pc>>

vitVars == <<log_prior, log_trans, log_emit, dp, back, v_t, path, best_log, v_pc>>

normVars == <<landmarks, factor, shift, feat, feat_t, n_pc>>

mainVars == <<m_pc, frames_read, all_states, features_per_state, fit_calls,
              m_reps, r_idx, decoded, model_written, diag>>

vars == <<segVars, transVars, vitVars, normVars, mainVars>>

otherThanSeg == <<transVars, vitVars, normVars, mainVars>>

otherThanTrans == <<segVars, vitVars, normVars, mainVars>>

otherThanVit == <<segVars, transVars, normVars, mainVars>>

otherThanNorm == <<segVars, transVars, vitVars, mainVars>>

otherThanMain == <<transVars, vitVars, normVars>>

\* ---------------------------------------------------------------- bounds

\* Longest label sequence handed to segment_reps and fit_transitions.
MaxLen == 11

\* Longest feature sub-sequence handed to viterbi_loglik.
MaxT == 3

\* The magnitude of a nonzero log score.
MaxScore == 1

\* Most frames cap.read() returns before the video ends.
MaxFrames == 6

\* Joint coordinates are 0 .. MaxCoord grid units; a grid unit is 1e-3 / ScaleEps.
MaxCoord == 1

\* The scale factors of the transform are 1 .. MaxFactor.
MaxFactor == 2

\* ---------------------------------------------------------------- helpers

NUM_STATES == 2

Labels == 0 .. (NUM_STATES - 1)

At(s, k) == s[k + 1]

SeqsUpTo(S, m) == UNION {[1 .. k -> S] : k \in 0 .. m}

\* ---------------------------------------------------------------- idle components

\* extract_feature_vector returns None; it has not returned yet.
None == [ok |-> FALSE, num |-> <<>>, den2 |-> 0]

NotCalled == [ok |-> FALSE, num |-> <<>>, den2 |-> -1]

NormIdle ==
    /\ landmarks = <<>>
    /\ factor = 1
    /\ shift = <<0, 0>>
    /\ feat = NotCalled
    /\ feat_t = NotCalled
    /\ n_pc = "idle"

MainIdle ==
    /\ m_pc = "idle"
    /\ frames_read = 0
    /\ all_states = <<>>
    /\ features_per_state = <<>>
    /\ fit_calls = {}
    /\ m_reps = <<>>
    /\ r_idx = 0
    /\ decoded = <<>>
    /\ model_written = FALSE
    /\ diag = ""

\* ---------------------------------------------------------------- viterbi_loglik

VitIdle ==
    /\ log_prior = <<>>
    /\ log_trans = <<>>
    /\ log_emit = <<>>
    /\ dp = <<>>
    /\ back = <<>>
    /\ v_t = 0
    /\ path = <<>>
    /\ best_log = 0
    /\ v_pc = "idle"

\* ---------------------------------------------------------------- fit_transitions

\* A matrix is a function of the first label, then the second; an entry of
\* the normalized matrix is the exact quotient <<numerator, denominator>>.

\* A variant without the add-one smoothing.
CountsInitZeros == [a \in Labels |-> [b \in Labels |-> 0]]

\* counts = np.ones((NUM_STATES, NUM_STATES))
CountsInit == [a \in Labels |-> [b \in Labels |-> 1]]

TransIdle ==
    /\ state_seq = <<>>
    /\ counts = CountsInit
    /\ t_i = 0
    /\ trans = "unset"
    /\ t_pc = "idle"

\* ---------------------------------------------------------------- segment_reps

\* reps = []; i = 0; n = len(frame_states)
SegEnter(fs) ==
    /\ frame_states' = fs
    /\ n' = Len(fs)
    /\ i' = 0
    /\ start' = -1
    /\ saw_down' = FALSE
    /\ reps' = <<>>
    /\ pc' = "outer"
    /\ iters' = 0
    /\ iter_i0' = 0

SegIdle ==
    /\ frame_states = <<>>
    /\ n = 0
    /\ i = 0
    /\ start = -1
    /\ saw_down = FALSE
    /\ reps = <<>>
    /\ pc = "idle"
    /\ iters = 0
    /\ iter_i0 = 0

\* A variant of the outer loop's test that also enters at the last frame.
OuterCondToLast(k, len) == k < len

\* while i < n - 1:
OuterCond(k, len) == k < len - 1

OuterTest ==
    /\ pc = "outer"
    /\ IF OuterCond(i, n)
          THEN /\ pc' = "findUp"
               /\ iters' = iters + 1
               /\ iter_i0' = i
          ELSE /\ pc' = "return"
               /\ UNCHANGED <<iters, iter_i0>>
    /\ UNCHANGED <<frame_states, n, i, start, saw_down, reps>>
    /\ UNCHANGED otherThanSeg

\* while i < n and frame_states[i] != 0: i += 1
FindUpStep ==
    /\ pc = "findUp"
    /\ i < n
    /\ At(frame_states, i) # 0
    /\ i' = i + 1
    /\ UNCHANGED <<frame_states, n, start, saw_down, reps, pc, iters, iter_i0>>
    /\ UNCHANGED otherThanSeg

\* the loop above ends; if i >= n - 1: break; start = i
FindUpExit ==
    /\ pc = "findUp"
    /\ ~(i < n /\ At(frame_states, i) # 0)
    /\ IF i >= n - 1
          THEN /\ pc' = "return"
               /\ UNCHANGED start
          ELSE /\ start' = i
               /\ pc' = "findDown"
    /\ UNCHANGED <<frame_states, n, i, saw_down, reps, iters, iter_i0>>
    /\ UNCHANGED otherThanSeg

\* while i < n and frame_states[i] == 0: i += 1
FindDownStep ==
    /\ pc = "findDown"
    /\ i < n
    /\ At(frame_states, i) = 0
    /\ i' = i + 1
    /\ UNCHANGED <<frame_states, n, start, saw_down, reps, pc, iters, iter_i0>>
    /\ UNCHANGED otherThanSeg

\* the loop above ends; if i >= n: break; saw_down = False
FindDownExit ==
    /\ pc = "findDown"
    /\ ~(i < n /\ At(frame_states, i) = 0)
    /\ IF i >= n
          THEN /\ pc' = "return"
               /\ UNCHANGED saw_down
          ELSE /\ saw_down' = FALSE
               /\ pc' = "inDown"
    /\ UNCHANGED <<frame_states, n, i, start, reps, iters, iter_i0>>
    /\ UNCHANGED otherThanSeg

\* while i < n and frame_states[i] == 1: saw_down = True; i += 1
InDownStep ==
    /\ pc = "inDown"
    /\ i < n
    /\ At(frame_states, i) = 1
    /\ saw_down' = TRUE
    /\ i' = i + 1
    /\ UNCHANGED <<frame_states, n, start, reps, pc, iters, iter_i0>>
    /\ UNCHANGED otherThanSeg

\* A variant that goes back to the frame after the cycle's start.
RewindCursor(s, e) == s + 1

\* The cursor after a repetition is appended: the outer loop goes on from
\* the current i, which the append leaves alone.
ResumeCursor(s, e) == e

\* A variant that ends the repetition at its last flexed frame.
RepEndLastFlexed(k) == k - 1

\* end = i
RepEnd(k) == k

\* A variant without the test for the end of the sequence.
InDownExitNoEndCheck ==
    /\ pc = "inDown"
    /\ ~(i < n /\ At(frame_states, i) = 1)
    /\ IF ~saw_down
          THEN /\ pc' = "return"
               /\ UNCHANGED <<reps, i>>
          ELSE /\ reps' = Append(reps, <<start, RepEnd(i)>>)
               /\ i' = ResumeCursor(start, i)
               /\ pc' = "outer"
    /\ UNCHANGED <<frame_states, n, start, saw_down, iters, iter_i0>>
    /\ UNCHANGED otherThanSeg

\* the loop above ends; if not saw_down: break; if i >= n: break;
\* end = i; reps.append((start, end))
InDownExit ==
    /\ pc = "inDown"
    /\ ~(i < n /\ At(frame_states, i) = 1)
    /\ IF ~saw_down \/ i >= n
          THEN /\ pc' = "return"
               /\ UNCHANGED <<reps, i>>
          ELSE /\ reps' = Append(reps, <<start, RepEnd(i)>>)
               /\ i' = ResumeCursor(start, i)
               /\ pc' = "outer"
    /\ UNCHANGED <<frame_states, n, start, saw_down, iters, iter_i0>>
    /\ UNCHANGED otherThanSeg

SegNext ==
    \/ OuterTest
    \/ FindUpStep
    \/ FindUpExit
    \/ FindDownStep
    \/ FindDownExit
    \/ InDownStep
    \/ InDownExit

\* segment_reps called on any label sequence of length 0 .. MaxLen.
InitSeg ==
    /\ frame_states \in SeqsUpTo(Labels, MaxLen)
    /\ n = Len(frame_states)
    /\ i = 0
    /\ start = -1
    /\ saw_down = FALSE
    /\ reps = <<>>
    /\ pc = "outer"
    /\ iters = 0
    /\ iter_i0 = 0
    /\ TransIdle
    /\ VitIdle
    /\ NormIdle
    /\ MainIdle

SpecSeg == InitSeg /\ [][SegNext]_vars

\* segment_reps is sequential code: a step that can be taken is taken.
FairSpecSeg == SpecSeg /\ WF_vars(SegNext)

\* ---------------------------------------------------------------- fit_transitions, continued

\* for i in range(len(state_seq) - 1): counts[state_seq[i], state_seq[i+1]] += 1.0
FitTransitionsStep ==
    /\ t_pc = "loop"
    /\ t_i < Len(state_seq) - 1
    /\ LET a == At(state_seq, t_i)
           b == At(state_seq, t_i + 1)
       IN  counts' = [counts EXCEPT ![a][b] = @ + 1]
    /\ t_i' = t_i + 1
    /\ UNCHANGED <<state_seq, trans, t_pc>>
    /\ UNCHANGED otherThanTrans

\* The sum of row a: counts.sum(axis=1, keepdims=True)
RowSum(c, a) == c[a][0] + c[a][1]

\* trans = counts / counts.sum(axis=1, keepdims=True); return trans
FitTransitionsReturn ==
    /\ t_pc = "loop"
    /\ ~(t_i < Len(state_seq) - 1)
    /\ trans' = [a \in Labels |->
                    [b \in Labels |-> <<counts[a][b], RowSum(counts, a)>>]]
    /\ t_pc' = "return"
    /\ UNCHANGED <<state_seq, counts, t_i>>
    /\ UNCHANGED otherThanTrans

TransNext ==
    \/ FitTransitionsStep
    \/ FitTransitionsReturn

\* fit_transitions called on any label sequence of length 0 .. MaxLen.
InitTrans ==
    /\ state_seq \in SeqsUpTo(Labels, MaxLen)
    /\ counts = CountsInit
    /\ t_i = 0
    /\ trans = "unset"
    /\ t_pc = "loop"
    /\ SegIdle
    /\ VitIdle
    /\ NormIdle
    /\ MainIdle

SpecTrans == InitTrans /\ [][TransNext]_vars

\* ---------------------------------------------------------------- viterbi_loglik, continued

\* A variant that resolves a tie to the highest-indexed state.
ArgMaxLast(c) ==
    CHOOSE s \in Labels :
        /\ \A r \in Labels : c[r] <= c[s]
        /\ \A r \in Labels : r > s => c[r] < c[s]

\* np.argmax: the index of the first occurrence of the maximum.
ArgMax(c) ==
    CHOOSE s \in Labels :
        /\ \A r \in Labels : c[r] <= c[s]
        /\ \A r \in Labels : r < s => c[r] < c[s]

\* A variant that leaves the transition score out.
CandidatesNoTrans(prev, lt, s) == [sp \in Labels |-> prev[sp]]

\* candidates = dp[t - 1, :] + log_trans[:, s]
Candidates(prev, lt, s) == [sp \in Labels |-> prev[sp] + lt[sp][s]]

\* dp[0, :] = log_prior + log_emit[0, :]
DpInit(lp, le) == [s \in Labels |-> lp[s] + At(le, 0)[s]]

\* best_prev = int(np.argmax(candidates)); back[t, s] = best_prev
BackRow(prev, lt) == [s \in Labels |-> ArgMax(Candidates(prev, lt, s))]

\* dp[t, s] = candidates[best_prev] + log_emit[t, s]
DpRow(prev, lt, le_t) ==
    [s \in Labels |->
        Candidates(prev, lt, s)[BackRow(prev, lt)[s]] + le_t[s]]

\* back = np.full((T, S), -1, dtype=int): a row the recursion has not set
BackUnset == [s \in Labels |-> -1]

\* dp[0, :] = log_prior + log_emit[0, :]
ViterbiInit ==
    /\ v_pc = "init"
    /\ dp' = <<DpInit(log_prior, log_emit)>>
    /\ back' = <<BackUnset>>
    /\ v_t' = 1
    /\ v_pc' = "recursion"
    /\ UNCHANGED <<log_prior, log_trans, log_emit, path, best_log>>
    /\ UNCHANGED otherThanVit

\* for t in range(1, T): for s in range(S): ...
ViterbiStep ==
    /\ v_pc = "recursion"
    /\ v_t < Len(log_emit)
    /\ dp' = Append(dp, DpRow(At(dp, v_t - 1), log_trans, At(log_emit, v_t)))
    /\ back' = Append(back, BackRow(At(dp, v_t - 1), log_trans))
    /\ v_t' = v_t + 1
    /\ UNCHANGED <<log_prior, log_trans, log_emit, path, best_log, v_pc>>
    /\ UNCHANGED otherThanVit

\* for t in reversed(range(T)): path[t] = s; s = back[t, s] if t > 0 else s
RECURSIVE PathTo(_, _, _)
PathTo(bk, t, s) ==
    IF t = 0 THEN <<s>>
    ELSE Append(PathTo(bk, t - 1, At(bk, t)[s]), s)

\* last_state = int(np.argmax(dp[T - 1, :]))
LastState(row) == ArgMax(row)

\* the recursion ends; last_state, best_log, the backtracking; return
ViterbiReturn ==
    /\ v_pc = "recursion"
    /\ ~(v_t < Len(log_emit))
    /\ LET T == Len(log_emit)
           last_state == LastState(At(dp, T - 1))
       IN  /\ best_log' = At(dp, T - 1)[last_state]
           /\ path' = PathTo(back, T - 1, last_state)
    /\ v_pc' = "return"
    /\ UNCHANGED <<log_prior, log_trans, log_emit, dp, back, v_t>>
    /\ UNCHANGED otherThanVit

VitNext ==
    \/ ViterbiInit
    \/ ViterbiStep
    \/ ViterbiReturn

\* A log score is 0 (probability 1) or -MaxScore; the scores of a path are
\* sums of these, so they range over 0 .. -(2 * MaxT) * MaxScore.
Scores == {0 - MaxScore, 0}

\* viterbi_loglik called on any sub-sequence of 1 .. MaxT frames: log_emit
\* is what lines 201-209 compute from the sequence, the means and the stds.
InitVit ==
    /\ log_prior \in [Labels -> Scores]
    /\ log_trans \in [Labels -> [Labels -> Scores]]
    /\ \E T \in 1 .. MaxT : log_emit \in [1 .. T -> [Labels -> Scores]]
    /\ dp = <<>>
    /\ back = <<>>
    /\ v_t = 0
    /\ path = <<>>
    /\ best_log = 0
    /\ v_pc = "init"
    /\ SegIdle
    /\ TransIdle
    /\ NormIdle
    /\ MainIdle

SpecVit == InitVit /\ [][VitNext]_vars

\* ---------------------------------------------------------------- main

\* The indices a Python slice [lo:hi] selects from a sequence of length len.
SliceIdx(lo, hi, len) == {k \in 0 .. (len - 1) : lo <= k /\ k < hi}

\* seq = all_features[start:end+1, :]
DecodedFrames(rep, len) == SliceIdx(rep[1], rep[2] + 1, len)

\* if not cap.isOpened(): print(...); return
MainOpenFail ==
    /\ m_pc = "start"
    /\ diag' = "Error: cannot open"
    /\ m_pc' = "returned"
    /\ UNCHANGED <<frames_read, all_states, features_per_state, fit_calls,
                   m_reps, r_idx, decoded, model_written>>
    /\ UNCHANGED <<segVars, otherThanMain>>

\* cap.isOpened(); all_features = []; all_states = []
MainOpen ==
    /\ m_pc = "start"
    /\ m_pc' = "read"
    /\ UNCHANGED <<frames_read, all_states, features_per_state, fit_calls,
                   m_reps, r_idx, decoded, model_written, diag>>
    /\ UNCHANGED <<segVars, otherThanMain>>

\* ret, frame = cap.read(); no pose landmarks, or no feature vector: continue
ReadFrameSkip ==
    /\ m_pc = "read"
    /\ frames_read < MaxFrames
    /\ frames_read' = frames_read + 1
    /\ UNCHANGED <<m_pc, all_states, features_per_state, fit_calls,
                   m_reps, r_idx, decoded, model_written, diag>>
    /\ UNCHANGED <<segVars, otherThanMain>>

\* st = knee_state(landmarks); all_features.append(feat); all_states.append(st)
ReadFrameAppend ==
    /\ m_pc = "read"
    /\ frames_read < MaxFrames
    /\ frames_read' = frames_read + 1
    /\ \E st \in Labels : all_states' = Append(all_states, st)
    /\ UNCHANGED <<m_pc, features_per_state, fit_calls,
                   m_reps, r_idx, decoded, model_written, diag>>
    /\ UNCHANGED <<segVars, otherThanMain>>

\* if not ret: break; cap.release()
ReadEnd ==
    /\ m_pc = "read"
    /\ m_pc' = "checkEmpty"
    /\ UNCHANGED <<frames_read, all_states, features_per_state, fit_calls,
                   m_reps, r_idx, decoded, model_written, diag>>
    /\ UNCHANGED <<segVars, otherThanMain>>

\* if len(all_features) == 0: print(...); return
\* features_per_state = ...; for x, s in zip(...): features_per_state[s].append(x)
MainBucket ==
    /\ m_pc = "checkEmpty"
    /\ IF Len(all_states) = 0
          THEN /\ diag' = "No usable frames extracted."
               /\ m_pc' = "returned"
               /\ UNCHANGED features_per_state
          ELSE /\ features_per_state' =
                      [s \in Labels |->
                          {k \in 0 .. (Len(all_states) - 1) : At(all_states, k) = s}]
               /\ m_pc' = "checkStates"
               /\ UNCHANGED diag
    /\ UNCHANGED <<frames_read, all_states, fit_calls,
                   m_reps, r_idx, decoded, model_written>>
    /\ UNCHANGED <<segVars, otherThanMain>>

\* A variant that checks the bucket of state 0 only.
StatesCheckedFirstOnly == {0}

\* for s in range(NUM_STATES):
StatesChecked == Labels

\* the first s, if any, with len(features_per_state[s]) == 0
EmptyStates == {s \in StatesChecked : features_per_state[s] = {}}

FirstEmptyState == CHOOSE s \in EmptyStates : \A r \in EmptyStates : s <= r

\* for s in range(NUM_STATES): if len(features_per_state[s]) == 0: print(...); return
MainCheckStates ==
    /\ m_pc = "checkStates"
    /\ IF EmptyStates # {}
          THEN /\ diag' = <<"State has no frames; adjust thresholds.", FirstEmptyState>>
               /\ m_pc' = "returned"
          ELSE /\ m_pc' = "fit"
               /\ UNCHANGED diag
    /\ UNCHANGED <<frames_read, all_states, features_per_state, fit_calls,
                   m_reps, r_idx, decoded, model_written>>
    /\ UNCHANGED <<segVars, otherThanMain>>

\* means, stds = fit_gaussians(...); trans = fit_transitions(...);
\* prior = fit_prior(...); log_prior = ...; log_trans = ...
MainFit ==
    /\ m_pc = "fit"
    /\ fit_calls' = {"fit_gaussians", "fit_transitions", "fit_prior"}
    /\ m_pc' = "segment"
    /\ UNCHANGED <<frames_read, all_states, features_per_state,
                   m_reps, r_idx, decoded, model_written, diag>>
    /\ UNCHANGED <<segVars, otherThanMain>>

\* reps = segment_reps(all_states.tolist()): the call
MainSegment ==
    /\ m_pc = "segment"
    /\ SegEnter(all_states)
    /\ m_pc' = "segmenting"
    /\ UNCHANGED <<frames_read, all_states, features_per_state, fit_calls,
                   m_reps, r_idx, decoded, model_written, diag>>
    /\ UNCHANGED otherThanMain

\* A variant that stops the fallback repetition one frame early.
FallbackRepsShort(len) == << <<0, len - 2>> >>

\* reps = [(0, len(all_states) - 1)]
FallbackReps(len) == << <<0, len - 1>> >>

\* segment_reps returns; if len(reps) == 0: print(...); reps = [(0, len(all_states) - 1)]
MainAfterSegment ==
    /\ m_pc = "segmenting"
    /\ pc = "return"
    /\ IF Len(reps) = 0
          THEN /\ diag' = "No reps detected; treating whole clip as one rep."
               /\ m_reps' = FallbackReps(Len(all_states))
          ELSE /\ m_reps' = reps
               /\ UNCHANGED diag
    /\ r_idx' = 0
    /\ m_pc' = "decode"
    /\ UNCHANGED <<frames_read, all_states, features_per_state, fit_calls,
                   decoded, model_written>>
    /\ UNCHANGED <<segVars, otherThanMain>>

\* for (start, end) in reps: seq = all_features[start:end+1, :];
\* _, ll = viterbi_loglik(seq, ...); rep_loglikes.append(ll)
MainDecodeStep ==
    /\ m_pc = "decode"
    /\ r_idx < Len(m_reps)
    /\ decoded' = Append(decoded,
                         [rep |-> At(m_reps, r_idx),
                          frames |-> DecodedFrames(At(m_reps, r_idx),
                                                   Len(all_states))])
    /\ r_idx' = r_idx + 1
    /\ UNCHANGED <<m_pc, frames_read, all_states, features_per_state, fit_calls,
                   m_reps, model_written, diag>>
    /\ UNCHANGED <<segVars, otherThanMain>>

\* the loop ends; mean_ll, std_ll; model = {...}; json.dump(model, f, indent=2)
MainWrite ==
    /\ m_pc = "decode"
    /\ ~(r_idx < Len(m_reps))
    /\ model_written' = TRUE
    /\ m_pc' = "returned"
    /\ UNCHANGED <<frames_read, all_states, features_per_state, fit_calls,
                   m_reps, r_idx, decoded, diag>>
    /\ UNCHANGED <<segVars, otherThanMain>>

MainNext ==
    \/ MainOpenFail
    \/ MainOpen
    \/ ReadFrameSkip
    \/ ReadFrameAppend
    \/ ReadEnd
    \/ MainBucket
    \/ MainCheckStates
    \/ MainFit
    \/ MainSegment
    \/ OuterTest
    \/ FindUpStep
    \/ FindUpExit
    \/ FindDownStep
    \/ FindDownExit
    \/ InDownStep
    \/ InDownExit
    \/ MainAfterSegment
    \/ MainDecodeStep
    \/ MainWrite

\* main() is entered; nothing has been read or called.
InitMain ==
    /\ m_pc = "start"
    /\ frames_read = 0
    /\ all_states = <<>>
    /\ features_per_state = <<>>
    /\ fit_calls = {}
    /\ m_reps = <<>>
    /\ r_idx = 0
    /\ decoded = <<>>
    /\ model_written = FALSE
    /\ diag = ""
    /\ SegIdle
    /\ TransIdle
    /\ VitIdle
    /\ NormIdle

SpecMain == InitMain /\ [][MainNext]_vars

\* ---------------------------------------------------------------- extract_feature_vector

\* Coordinates are integers in grid units, ScaleEps grid units being the 1e-3
\* of the two scale tests; visibilities are in tenths, VisThreshold tenths
\* being the 0.3 of get(). A feature vector is kept exact as
\* [ok |-> TRUE, num |-> 16 integers, den2 |-> an integer]: component k is
\* num[k] / sqrt(den2).
ScaleEps == 1

VisThreshold == 3

\* JOINT_ORDER
JOINT_ORDER == <<"LEFT_SHOULDER", "RIGHT_SHOULDER", "LEFT_HIP", "RIGHT_HIP",
                 "LEFT_KNEE", "RIGHT_KNEE", "LEFT_ANKLE", "RIGHT_ANKLE">>

Joints == {JOINT_ORDER[k] : k \in 1 .. Len(JOINT_ORDER)}

\* get(lm) returns None: p.visibility < 0.3
Hidden(lms, j) == lms[j].vis < VisThreshold

\* The squared length of the vector from a to b.
Dist2(a, b) == (a[1] - b[1]) * (a[1] - b[1]) + (a[2] - b[2]) * (a[2] - b[2])

\* Twice the hip center and twice the shoulder center.
HipCenter2(lms) ==
    <<lms["LEFT_HIP"].x + lms["RIGHT_HIP"].x, lms["LEFT_HIP"].y + lms["RIGHT_HIP"].y>>

ShoulderCenter2(lms) ==
    <<lms["LEFT_SHOULDER"].x + lms["RIGHT_SHOULDER"].x,
      lms["LEFT_SHOULDER"].y + lms["RIGHT_SHOULDER"].y>>

\* (2 * dist(hip_center, shoulder_center)) squared
ShoulderHip2(lms) == Dist2(HipCenter2(lms), ShoulderCenter2(lms))

\* dist(lh, rh) squared
HipWidth2(lms) ==
    Dist2(<<lms["LEFT_HIP"].x, lms["LEFT_HIP"].y>>,
          <<lms["RIGHT_HIP"].x, lms["RIGHT_HIP"].y>>)

\* norm(p), both components times 2 * scale:
\* 2 * (p - hip_center) = 2p - (lh + rh)
Norm2(lms, j) ==
    <<2 * lms[j].x - HipCenter2(lms)[1], 2 * lms[j].y - HipCenter2(lms)[2]>>

\* feat = [ls_n[0], ls_n[1], rs_n[0], ...], each times 2 * scale
FeatNum(lms) ==
    [k \in 1 .. 2 * Len(JOINT_ORDER) |->
        Norm2(lms, JOINT_ORDER[(k + 1) \div 2])[2 - (k % 2)]]

ExtractFeatureVector(lms) ==
    IF \E j \in Joints : Hidden(lms, j) THEN None
    ELSE IF ~(ShoulderHip2(lms) < 4 * ScaleEps * ScaleEps)
            \* scale = dist(hip_center, shoulder_center): (2 * scale)^2
            THEN [ok |-> TRUE, num |-> FeatNum(lms), den2 |-> ShoulderHip2(lms)]
    ELSE IF ~(HipWidth2(lms) < ScaleEps * ScaleEps)
            \* scale = dist(lh, rh): (2 * scale)^2
            THEN [ok |-> TRUE, num |-> FeatNum(lms), den2 |-> 4 * HipWidth2(lms)]
    ELSE None

\* Every joint position scaled by f, then translated by sh.
Transformed(lms, f, sh) ==
    [j \in Joints |-> [x |-> f * lms[j].x + sh[1],
                       y |-> f * lms[j].y + sh[2],
                       vis |-> lms[j].vis]]

\* extract_feature_vector on the landmarks and on the transformed landmarks
ExtractCalls ==
    /\ n_pc = "call"
    /\ feat' = ExtractFeatureVector(landmarks)
    /\ feat_t' = ExtractFeatureVector(Transformed(landmarks, factor, shift))
    /\ n_pc' = "return"
    /\ UNCHANGED <<landmarks, factor, shift>>
    /\ UNCHANGED otherThanNorm

NormNext == ExtractCalls

Points == (0 .. MaxCoord) \X (0 .. MaxCoord)

\* The knees and the ankles are drawn from two positions each.
LegPoints == {<<0, 0>>, <<MaxCoord, MaxCoord>>}

TorsoJoints == {"LEFT_SHOULDER", "RIGHT_SHOULDER", "LEFT_HIP", "RIGHT_HIP"}

Shifts == {<<0, 0>>, <<1, 2>>}

\* Every joint is visible, or exactly one is just below the threshold.
InitNorm ==
    /\ \E pos \in [Joints -> Points], low \in Joints \cup {"none"} :
          /\ \A j \in Joints \ TorsoJoints : pos[j] \in LegPoints
          /\ landmarks =
                [j \in Joints |->
                    [x |-> pos[j][1], y |-> pos[j][2],
                     vis |-> IF j = low THEN VisThreshold - 1 ELSE VisThreshold]]
    /\ factor \in 1 .. MaxFactor
    /\ shift \in Shifts
    /\ feat = NotCalled
    /\ feat_t = NotCalled
    /\ n_pc = "call"
    /\ SegIdle
    /\ TransIdle
    /\ VitIdle
    /\ MainIdle

SpecNorm == InitNorm /\ [][NormNext]_vars

\* ================================================================ claims

SegReturned == pc = "return"

Example == <<0, 0, 1, 1, 1, 0, 0, 0, 1, 1, 0>>

\* The maximal runs of Flexed labels of s, each as <<a, b>>: the run occupies
\* the indices a .. b-1.
FlexedRuns(s) ==
    {r \in (0 .. Len(s)) \X (0 .. Len(s)) :
        /\ r[1] < r[2]
        /\ \A k \in r[1] .. (r[2] - 1) : At(s, k) = 1
        /\ (r[1] = 0 \/ At(s, r[1] - 1) # 1)
        /\ (r[2] = Len(s) \/ At(s, r[2]) # 1)}

\* The first index of the maximal Extended run that ends at a-1.
ExtendedRunStart(s, a) ==
    CHOOSE c \in 0 .. (a - 1) :
        /\ \A k \in c .. (a - 1) : At(s, k) = 0
        /\ (c = 0 \/ At(s, c - 1) # 0)

ExpectedReps(s) ==
    {<<ExtendedRunStart(s, r[1]), r[2]>> :
        r \in {q \in FlexedRuns(s) : q[1] >= 1 /\ q[2] <= Len(s) - 1}}

RepSet == {reps[k] : k \in 1 .. Len(reps)}

\* C1: segment_reps returns exactly one pair (start, end) per maximal Flexed
\* run a..b-1 with a >= 1 and b <= n-1, where end = b and start is the first
\* index of the maximal Extended run ending at a-1; no other pair; the pairs
\* are in increasing order of start; the example sequence yields exactly
\* [(0,5),(5,10)]; no pair ends beyond the last frame.
C1_SegmentRepsCharacterised ==
    SegReturned =>
        /\ RepSet = ExpectedReps(frame_states)
        /\ Len(reps) = Cardinality(ExpectedReps(frame_states))
        /\ \A k \in 1 .. (Len(reps) - 1) : reps[k][1] < reps[k + 1][1]
        /\ \A k \in 1 .. Len(reps) : reps[k][2] <= n - 1
        /\ (frame_states = Example => reps = << <<0, 5>>, <<5, 10>> >>)

C1_Witness ==
    /\ SegReturned
    /\ frame_states = Example
    /\ reps = << <<0, 5>>, <<5, 10>> >>

\* C2 (as claimed): two repetitions emitted one after the other have
\* s1 < s2 and the frame ranges decoded for them (s..e inclusive) share no
\* frame index.
C2_Original_DisjointDecodedRanges ==
    SegReturned =>
        \A k \in 1 .. (Len(reps) - 1) :
            /\ reps[k][1] < reps[k + 1][1]
            /\ DecodedFrames(reps[k], n) \cap DecodedFrames(reps[k + 1], n) = {}

\* C2 (amended): two repetitions emitted one after the other have s1 < s2
\* and e1 = s2: the frame ranges decoded for them share exactly the boundary
\* frame e1, and the half-open ranges s..e-1 share none.
C2_SharedBoundaryOnly ==
    SegReturned =>
        \A k \in 1 .. (Len(reps) - 1) :
            /\ reps[k][1] < reps[k + 1][1]
            /\ reps[k][2] = reps[k + 1][1]
            /\ DecodedFrames(reps[k], n) \cap DecodedFrames(reps[k + 1], n)
                   = {reps[k][2]}
            /\ SliceIdx(reps[k][1], reps[k][2], n)
                   \cap SliceIdx(reps[k + 1][1], reps[k + 1][2], n) = {}

C2_Witness ==
    /\ SegReturned
    /\ Len(reps) >= 3
    /\ DecodedFrames(reps[1], n) \cap DecodedFrames(reps[2], n) = {reps[1][2]}

\* The reference machine of C9: the scan as an explicit automaton reading
\* the label at index k in state q; st is the recorded start, out the
\* repetitions emitted. SEEK_EXTENDED moves to IN_EXTENDED_RUN and records
\* start on an Extended label; IN_EXTENDED_RUN moves to IN_FLEXED_RUN on a
\* Flexed label; IN_FLEXED_RUN on a non-Flexed label at index k emits
\* (start, k) and resumes the search at that same index.
RECURSIVE Automaton(_, _, _, _, _)
Automaton(s, k, q, st, out) ==
    IF k >= Len(s) THEN out
    ELSE CASE q = "SEEK_EXTENDED" ->
                 IF At(s, k) = 0
                    THEN Automaton(s, k + 1, "IN_EXTENDED_RUN", k, out)
                    ELSE Automaton(s, k + 1, q, st, out)
           [] q = "IN_EXTENDED_RUN" ->
                 IF At(s, k) = 1
                    THEN Automaton(s, k + 1, "IN_FLEXED_RUN", st, out)
                    ELSE Automaton(s, k + 1, q, st, out)
           [] q = "IN_FLEXED_RUN" ->
                 IF At(s, k) # 1
                    THEN Automaton(s, k, "SEEK_EXTENDED", st,
                                   Append(out, <<st, k>>))
                    ELSE Automaton(s, k + 1, q, st, out)

AutomatonReps(s) == Automaton(s, 0, "SEEK_EXTENDED", -1, <<>>)

\* C9: on every label sequence over {0,1} the nested-loop scan returns the
\* list of repetitions the 3-state automaton emits.
C9_ScanEqualsAutomaton ==
    SegReturned => reps = AutomatonReps(frame_states)

C9_Witness ==
    /\ SegReturned
    /\ Len(reps) = 2
    /\ reps = AutomatonReps(frame_states)
    /\ At(frame_states, 0) = 1
    /\ At(frame_states, n - 1) = 1

\* C10: the cursor starts at 0, never decreases, never exceeds n; an outer
\* iteration that appends a repetition leaves the cursor at least 2 beyond
\* where the iteration found it; the outer loop's body is entered at most
\* n/2 times; the scan returns.
C10_SinglePassTerminates ==
    /\ i = 0
    /\ [](0 <= i /\ i <= n /\ 2 * iters <= n)
    /\ [][/\ i' >= i
          /\ (pc = "inDown" /\ pc' = "outer") => i' >= iter_i0 + 2]_vars
    /\ <>SegReturned

C10_Witness ==
    /\ SegReturned
    /\ iters = 3
    /\ Len(reps) = 2
    /\ i = n

\* The number of indices k with (label[k], label[k+1]) = (a, b).
Pairs(s, a, b) ==
    Cardinality({k \in 0 .. (Len(s) - 2) : At(s, k) = a /\ At(s, k + 1) = b})

TransReturned == t_pc = "return"

\* C8: fit_transitions computes count(a,b) = 1 + the number of consecutive
\* pairs (a,b) and returns count(a,b) / (count(a,0) + count(a,1)); every
\* entry is > 0, each row sums to 1, and the four counts total
\* 4 + max(T-1, 0).
C8_TransitionsRowStochastic ==
    TransReturned =>
        /\ \A a \in Labels : \A b \in Labels :
              /\ counts[a][b] = 1 + Pairs(state_seq, a, b)
              /\ trans[a][b] = <<counts[a][b], counts[a][0] + counts[a][1]>>
              /\ trans[a][b][1] > 0
              /\ trans[a][b][2] > 0
        /\ \A a \in Labels :
              /\ trans[a][0][2] = trans[a][1][2]
              /\ trans[a][0][1] + trans[a][1][1] = trans[a][0][2]
        /\ counts[0][0] + counts[0][1] + counts[1][0] + counts[1][1]
              = 4 + (IF Len(state_seq) >= 1 THEN Len(state_seq) - 1 ELSE 0)

C8_Witness ==
    /\ TransReturned
    /\ Len(state_seq) = 6
    /\ trans[0][1] = <<3, 4>>
    /\ trans[1][0] = <<3, 5>>

VitReturned == v_pc = "return"

\* logPrior[p0] + logEmit[0,p0] + sum over t >= 1 of
\* (logTrans[p(t-1),p(t)] + logEmit[t,p(t)]), for the first len frames of p.
RECURSIVE PathScore(_, _)
PathScore(p, len) ==
    IF len = 1 THEN log_prior[At(p, 0)] + At(log_emit, 0)[At(p, 0)]
    ELSE PathScore(p, len - 1)
            + log_trans[At(p, len - 2)][At(p, len - 1)]
            + At(log_emit, len - 1)[At(p, len - 1)]

AllPaths == [1 .. Len(log_emit) -> Labels]

\* C3: viterbi_loglik returns a path of length T over {0,1} and best_log,
\* the maximum over all 2^T label paths of the path score; the returned path
\* attains it.
C3_ViterbiOptimal ==
    VitReturned =>
        /\ path \in AllPaths
        /\ \A p \in AllPaths : PathScore(p, Len(log_emit)) <= best_log
        /\ PathScore(path, Len(log_emit)) = best_log

C3_Witness ==
    /\ VitReturned
    /\ Len(log_emit) = 3
    /\ path = <<1, 0, 1>>
    /\ best_log = 0

Symmetric ==
    /\ log_prior[0] = log_prior[1]
    /\ \A a \in Labels : \A b \in Labels : log_trans[a][b] = log_trans[0][0]
    /\ \A t \in 1 .. Len(log_emit) : log_emit[t][0] = log_emit[t][1]

\* C4: when prior, transitions and emissions are symmetric across the two
\* states, viterbi_loglik returns the path that is state 0 at every step.
C4_SymmetricDecodesToZero ==
    (VitReturned /\ Symmetric) =>
        path = [t \in 1 .. Len(log_emit) |-> 0]

C4_Witness ==
    /\ VitReturned
    /\ Symmetric
    /\ Len(log_emit) = 3
    /\ log_prior[0] = -1
    /\ log_emit[2][0] = -1
    /\ path = <<0, 0, 0>>

\* The corpus is empty, or a label has no feature vector.
CorpusInsufficient ==
    \/ Len(all_states) = 0
    \/ \E s \in Labels : \A k \in 1 .. Len(all_states) : all_states[k] # s

ForwardPassDone == m_pc \notin {"idle", "start", "read"}

\* C5: if the corpus is empty after the forward pass, or a label has no
\* feature vector, the run stops before any fitter, the segmenter or the
\* decoder is called and no model is written; a model is written only when
\* both label buckets are non-empty.
C5_InsufficientDataAborts ==
    /\ (ForwardPassDone /\ CorpusInsufficient) =>
          /\ fit_calls = {}
          /\ pc = "idle"
          /\ decoded = <<>>
          /\ ~model_written
          /\ m_pc \in {"checkEmpty", "checkStates", "returned"}
    /\ model_written =>
          \A s \in Labels : \E k \in 1 .. Len(all_states) : all_states[k] = s

C5_Witness ==
    /\ m_pc = "returned"
    /\ all_states = <<1, 1, 1>>
    /\ diag = <<"State has no frames; adjust thresholds.", 0>>
    /\ fit_calls = {}
    /\ ~model_written

\* C6: in a run that passes the insufficient-data checks with T frames, if
\* segment_reps returns no repetition, the whole sequence is the one
\* repetition (0, T-1), the decoder runs exactly once, over frames 0..T-1,
\* and the run ends with the model written.
C6_NoRepsFallback ==
    (m_pc = "returned" /\ fit_calls # {} /\ reps = <<>>) =>
        /\ m_reps = << <<0, Len(all_states) - 1>> >>
        /\ Len(decoded) = 1
        /\ decoded[1].rep = <<0, Len(all_states) - 1>>
        /\ decoded[1].frames = 0 .. (Len(all_states) - 1)
        /\ model_written

C6_Witness ==
    /\ m_pc = "returned"
    /\ all_states = <<0, 0, 1, 1>>
    /\ reps = <<>>
    /\ Len(decoded) = 1
    /\ decoded[1].frames = 0 .. 3
    /\ model_written

Sign(x) == IF x > 0 THEN 1 ELSE IF x < 0 THEN -1 ELSE 0

\* a.num[k] / sqrt(a.den2) = b.num[k] / sqrt(b.den2) for every component,
\* or both are None.
SameFeature(a, b) ==
    IF ~a.ok \/ ~b.ok THEN a.ok = b.ok
    ELSE \A k \in 1 .. Len(a.num) :
            /\ Sign(a.num[k]) = Sign(b.num[k])
            /\ a.num[k] * a.num[k] * b.den2 = b.num[k] * b.num[k] * a.den2

AllVisible == \A j \in Joints : landmarks[j].vis >= VisThreshold

\* C7: with every confidence >= 0.3, extract_feature_vector returns the same
\* result (the same vector, or no vector in both cases) on the landmarks and
\* on the landmarks scaled uniformly by a positive factor and translated.
C7_NormalizationInvariant ==
    (n_pc = "return" /\ AllVisible) => SameFeature(feat, feat_t)

\* The repetitions main decodes are the ones segment_reps returned, not the
\* whole-sequence fallback.
FromSegmenter == reps # <<>>

\* C11: in every run that reaches the decoding stage with T frames, every
\* interval (start, end) handed to the decoder, emitted by segment_reps or
\* the whole-sequence fallback, has 0 <= start < end <= T-1, and
\* end >= start + 2 when segment_reps emitted it; the sub-sequence decoded is
\* the frames start..end, none missing, so it is never empty or out of range.
C11_DecodedIntervalsInRange ==
    /\ m_pc = "decode" =>
          \A k \in 1 .. Len(m_reps) :
              /\ 0 <= m_reps[k][1]
              /\ m_reps[k][1] < m_reps[k][2]
              /\ m_reps[k][2] <= Len(all_states) - 1
              /\ FromSegmenter => m_reps[k][2] >= m_reps[k][1] + 2
    /\ \A k \in 1 .. Len(decoded) :
          /\ 0 <= decoded[k].rep[1]
          /\ decoded[k].rep[1] < decoded[k].rep[2]
          /\ decoded[k].rep[2] <= Len(all_states) - 1
          /\ FromSegmenter => decoded[k].rep[2] >= decoded[k].rep[1] + 2
          /\ decoded[k].frames = decoded[k].rep[1] .. decoded[k].rep[2]
          /\ decoded[k].frames # {}

C11_Witness ==
    /\ m_pc = "returned"
    /\ model_written
    /\ all_states = <<0, 1, 0, 1, 0>>
    /\ Len(decoded) = 2
    /\ decoded[1].rep = <<0, 2>>
    /\ decoded[2].rep = <<2, 4>>
    /\ decoded[2].frames = 2 .. 4

====
